---- MODULE Spec2Model ----
(***************************************************************************)
(* A model of src/main.py, the Chicago health map poster generator:        *)
(* load_geo, load_csv, the metric prompt, merge_data, make_poster and      *)
(* make_interactive, run in sequence by main.                              *)
(*                                                                         *)
(* Text (column names, area names, raw cell text) is a sequence of         *)
(* one-character strings, so that str.lower, str.strip, the substring test *)
(* and numeric parsing are computed character by character.  A data frame  *)
(* is a record [cols, rows, crs]: cols is the sequence of column names,    *)
(* rows a sequence of rows, each row a sequence of cells aligned with      *)
(* cols, crs the EPSG code of the frame (0 for a plain table).             *)
(*                                                                         *)
(* Modelling decisions:                                                    *)
(*  - numbers are integers; quantiles are kept exactly, in hundredths;     *)
(*  - only ASCII letters change under str.lower; whitespace is " ", "\t";  *)
(*  - column names of one table are distinct after stripping;              *)
(*  - the rendering calls of matplotlib and folium succeed, except that    *)
(*    GeoJsonTooltip rejects fields and aliases of different lengths and   *)
(*    that the basemap fetch may fail.                                     *)
(***************************************************************************)
EXTENDS Integers, Sequences, FiniteSets, TLC

\* ------------------------------------------------------------------ bounds
MaxGeoRows == 2
MaxCsvRows == 2
MaxNameLen == 2
MaxSeriesLen == 3
MaxVal == 2

\* ------------------------------------------------------- program constants
PosterCrs == 3857
MapCrs == 4326
QLow == 1
QHigh == 99

\* -------------------------------------------------------------------- text
UpperChars ==
  <<"A","B","C","D","E","F","G","H","I","J","K","L","M",
    "N","O","P","Q","R","S","T","U","V","W","X","Y","Z">>
LowerChars ==
  <<"a","b","c","d","e","f","g","h","i","j","k","l","m",
    "n","o","p","q","r","s","t","u","v","w","x","y","z">>
DigitChars == <<"0","1","2","3","4","5","6","7","8","9">>
Whitespace == {" ", "\t"}

LowerChar(ch) ==
  IF \E i \in 1..26 : UpperChars[i] = ch
  THEN LowerChars[CHOOSE i \in 1..26 : UpperChars[i] = ch]
  ELSE ch

\* str.lower()
Lower(s) == [i \in 1..Len(s) |-> LowerChar(s[i])]

RECURSIVE LStrip(_)
LStrip(s) ==
  IF s # <<>> /\ Head(s) \in Whitespace THEN LStrip(Tail(s)) ELSE s

RECURSIVE RStrip(_)
RStrip(s) ==
  IF s # <<>> /\ s[Len(s)] \in Whitespace
  THEN RStrip(SubSeq(s, 1, Len(s) - 1))
  ELSE s

\* str.strip()
Strip(s) == RStrip(LStrip(s))

\* sub in s
Contains(s, sub) ==
  \E i \in 0..(Len(s) - Len(sub)) : SubSeq(s, i + 1, i + Len(sub)) = sub

DigitVal(ch) == (CHOOSE i \in 1..10 : DigitChars[i] = ch) - 1
IsDigit(ch) == \E i \in 1..10 : DigitChars[i] = ch
IsNumeral(s) == s # <<>> /\ \A i \in 1..Len(s) : IsDigit(s[i])

RECURSIVE ParseInt(_)
ParseInt(s) ==
  IF s = <<>> THEN 0
  ELSE 10 * ParseInt(SubSeq(s, 1, Len(s) - 1)) + DigitVal(s[Len(s)])

\* str(n) of a non-negative integer
RECURSIVE Digits(_)
Digits(n) ==
  IF n < 10 THEN <<DigitChars[n + 1]>>
  ELSE Digits(n \div 10) \o <<DigitChars[(n % 10) + 1]>>

\* ------------------------------------------------------------ column names
CommunityAreaName ==
  <<"C","o","m","m","u","n","i","t","y"," ","A","r","e","a"," ","N","a","m","e">>
CommunityWord == <<"c","o","m","m","u","n","i","t","y">>
JoinCol == <<"_","_","j","o","i","n","_","_">>
MetricValueCol == <<"m","e","t","r","i","c","_","v","a","l","u","e">>
GeometryCol == <<"g","e","o","m","e","t","r","y">>
AreaNumCol == <<"a","r","e","a","_","n","u","m">>
NameCol == <<"n","a","m","e">>
BirthRate == <<"B","i","r","t","h"," ","R","a","t","e">>
CommunityAreaAlias ==
  <<"C","o","m","m","u","n","i","t","y"," ","A","r","e","a">>
SuffixX == <<"_","x">>
SuffixY == <<"_","y">>

\* ------------------------------------------------------------------- cells
Str(s) == [k |-> "str", s |-> s, n |-> 0, e |-> 0]
Num(n) == [k |-> "num", s |-> <<>>, n |-> n, e |-> 0]
NaN == [k |-> "nan", s |-> <<>>, n |-> 0, e |-> 0]
Geom(id, epsg) == [k |-> "geom", s |-> <<>>, n |-> id, e |-> epsg]

\* astype(str) of one cell
AsStr(v) ==
  CASE v.k = "str" -> v.s
    [] v.k = "num" -> Digits(v.n)
    [] v.k = "nan" -> <<"n","a","n">>
    [] OTHER -> <<>>

\* pd.to_numeric(errors="coerce") of one cell
ToNumeric(v) ==
  CASE v.k = "num" -> v
    [] v.k = "str" ->
         IF IsNumeral(Strip(v.s)) THEN Num(ParseInt(Strip(v.s))) ELSE NaN
    [] OTHER -> NaN

\* ------------------------------------------------------------------ frames
NoFrame == [cols |-> <<>>, rows |-> <<>>, crs |-> 0]

HasCol(cols, c) == \E i \in 1..Len(cols) : cols[i] = c
ColIndex(cols, c) ==
  CHOOSE i \in 1..Len(cols) :
    cols[i] = c /\ \A j \in 1..(i - 1) : cols[j] # c

\* frame[c]
Column(frame, c) ==
  [r \in 1..Len(frame.rows) |-> frame.rows[r][ColIndex(frame.cols, c)]]

\* frame[c] = vals
SetColumn(frame, c, vals) ==
  IF HasCol(frame.cols, c)
  THEN [frame EXCEPT !.rows =
          [r \in 1..Len(frame.rows) |->
             [frame.rows[r] EXCEPT ![ColIndex(frame.cols, c)] = vals[r]]]]
  ELSE [frame EXCEPT !.cols = Append(frame.cols, c),
                     !.rows = [r \in 1..Len(frame.rows) |->
                                 Append(frame.rows[r], vals[r])]]

\* frame.columns = [c.strip() for c in frame.columns]
StripColumns(frame) ==
  [frame EXCEPT !.cols = [i \in 1..Len(frame.cols) |-> Strip(frame.cols[i])]]

\* ------------------------------------------------------------------- merge
\* frame.rows[r] at column c
Cell(frame, r, c) == frame.rows[r][ColIndex(frame.cols, c)]

\* astype(str).str.lower() without the trailing .str.strip()
NormalizeNoStrip(v) == Str(Lower(AsStr(v)))

\* the join key of one cell: astype(str).str.lower().str.strip()
Normalize(v) == Str(Strip(Lower(AsStr(v))))

\* frame["__join__"] = frame[keycol].astype(str).str.lower().str.strip()
WithJoinKey(frame, keycol) ==
  SetColumn(frame, JoinCol,
            [r \in 1..Len(frame.rows) |-> Normalize(Cell(frame, r, keycol))])

\* for c in gdf.columns: if "community" in c.lower(): gkey = c; break
\* (0 stands for gkey = None)
DetectGeoKey(cols) ==
  IF \E i \in 1..Len(cols) : Contains(Lower(cols[i]), CommunityWord)
  THEN CHOOSE i \in 1..Len(cols) :
         /\ Contains(Lower(cols[i]), CommunityWord)
         /\ \A j \in 1..(i - 1) : ~Contains(Lower(cols[j]), CommunityWord)
  ELSE 0

\* pandas merge: a non-key column present on both sides gets a suffix
Overlap(left, right, on, c) ==
  c # on /\ HasCol(left.cols, c) /\ HasCol(right.cols, c)

MergedCols(left, right, on) ==
  LET lc == [i \in 1..Len(left.cols) |->
               IF Overlap(left, right, on, left.cols[i])
               THEN left.cols[i] \o SuffixX ELSE left.cols[i]]
      rk == SelectSeq(right.cols, LAMBDA c : c # on)
      rc == [i \in 1..Len(rk) |->
               IF Overlap(left, right, on, rk[i])
               THEN rk[i] \o SuffixY ELSE rk[i]]
  IN lc \o rc

\* the cells of right row j without the key column
RightCells(right, on, j) ==
  LET idx == ColIndex(right.cols, on)
      row == right.rows[j]
  IN SubSeq(row, 1, idx - 1) \o SubSeq(row, idx + 1, Len(row))

\* the right rows matched to left row i: those whose key equals its key;
\* how="left": a left row without a match is kept once (slot 0)
Slots(left, right, on, i) ==
  LET m == {j \in 1..Len(right.rows) : Cell(right, j, on) = Cell(left, i, on)}
  IN IF m = {} THEN {0} ELSE m

\* one joined row per left row and slot, in the order of the left table and,
\* for one left row, of the right table
JoinPairs(left, right, on) ==
  UNION {{<<i, j>> : j \in Slots(left, right, on, i)} :
           i \in 1..Len(left.rows)}

PairBefore(p, q) == p[1] < q[1] \/ (p[1] = q[1] /\ p[2] < q[2])

JoinedRow(left, right, on, p) ==
  IF p[2] = 0
  THEN left.rows[p[1]] \o [c \in 1..(Len(right.cols) - 1) |-> NaN]
  ELSE left.rows[p[1]] \o RightCells(right, on, p[2])

JoinRows(left, right, on) ==
  LET pairs == JoinPairs(left, right, on)
  IN [k \in 1..Cardinality(pairs) |->
        JoinedRow(left, right, on,
          CHOOSE p \in pairs :
            Cardinality({q \in pairs : PairBefore(q, p)}) = k - 1)]

\* left.merge(right, on=on, how="left")
MergeFrames(left, right, on) ==
  [cols |-> MergedCols(left, right, on),
   rows |-> JoinRows(left, right, on),
   crs |-> left.crs]

\* merged["metric_value"] = pd.to_numeric(merged[metric], errors="coerce")
WithMetricValue(frame, m) ==
  SetColumn(frame, MetricValueCol,
            [r \in 1..Len(frame.rows) |-> ToNumeric(Cell(frame, r, m))])

\* ------------------------------------------------------------- color scale
\* the numbers of s in ascending order
SortNums(s) ==
  [k \in 1..Len(s) |->
     CHOOSE v \in {s[i] : i \in 1..Len(s)} :
       /\ Cardinality({i \in 1..Len(s) : s[i] < v}) < k
       /\ Cardinality({i \in 1..Len(s) : s[i] <= v}) >= k]

\* the non-null numbers of a series, ascending
NonNullSorted(series) ==
  LET nn == SelectSeq(series, LAMBDA v : v.k = "num")
  IN SortNums([i \in 1..Len(nn) |-> nn[i].n])

NoQuantile == [nan |-> TRUE, c |-> 0]

\* interpolation="lower": the order statistic below the position
QuantileLower(series, pct) ==
  LET s == NonNullSorted(series)
      n == Len(s)
  IN IF n = 0 THEN NoQuantile
     ELSE [nan |-> FALSE, c |-> 100 * s[(pct * (n - 1)) \div 100 + 1]]

\* the interpolation weight applied from the upper order statistic
QuantileReversed(series, pct) ==
  LET s == NonNullSorted(series)
      n == Len(s)
      pos == pct * (n - 1)
      lo == pos \div 100 + 1
      fr == pos % 100
      hi == IF lo < n THEN lo + 1 ELSE lo
  IN IF n = 0 THEN NoQuantile
     ELSE [nan |-> FALSE, c |-> 100 * s[hi] - fr * (s[hi] - s[lo])]

\* Series.quantile(pct / 100): skips nulls, NaN when none is left, linear
\* interpolation between the order statistics around (n - 1) * pct / 100;
\* the result is in hundredths
Quantile(series, pct) ==
  LET s == NonNullSorted(series)
      n == Len(s)
      pos == pct * (n - 1)
      lo == pos \div 100 + 1
      fr == pos % 100
      hi == IF lo < n THEN lo + 1 ELSE lo
  IN IF n = 0 THEN NoQuantile
     ELSE [nan |-> FALSE, c |-> 100 * s[lo] + fr * (s[hi] - s[lo])]

\* ---------------------------------------------------------------- reproject
\* frame.to_crs(epsg): a new frame, its geometries in the target system
ToCrs(frame, epsg) ==
  [frame EXCEPT
     !.crs = epsg,
     !.rows = [r \in 1..Len(frame.rows) |->
                 [c \in 1..Len(frame.rows[r]) |->
                    IF frame.rows[r][c].k = "geom"
                    THEN Geom(frame.rows[r][c].n, epsg)
                    ELSE frame.rows[r][c]]]]

\* to_crs(epsg, inplace=True): the frame it is called on is reprojected
ToCrsInplace(frame, epsg) == ToCrs(frame, epsg)

\* what to_crs(epsg) leaves in the frame it is called on (inplace=False)
ToCrsSelf(frame, epsg) == frame

\* ------------------------------------------------------------------ inputs
\* a GeoJSON file without a crs member is in EPSG:4326
FileCrs == 4326

SeqsOf(S, lo, hi) == UNION {[1..n -> S] : n \in lo..hi}

Absent == [exists |-> FALSE, frame |-> NoFrame]

\* the properties of the features, as written in the file
GeoPlain == <<CommunityWord, AreaNumCol, GeometryCol>>
GeoUpper == <<<<"C","O","M","M","U","N","I","T","Y"," ">>, GeometryCol>>
GeoClash == <<CommunityAreaName, GeometryCol>>
GeoNoKey == <<NameCol, GeometryCol>>

\* the header line of the CSV, as written in the file
CsvPlain == <<CommunityAreaName, BirthRate>>
CsvPadded == <<CommunityAreaName \o <<" ">>, <<" ">> \o BirthRate>>
CsvNoKey == <<NameCol, BirthRate>>

\* feature i of a file with these properties: its geometry, its area number,
\* and the area name in every other property
GeoCell(col, name, i) ==
  IF col = GeometryCol THEN Geom(i, FileCrs)
  ELSE IF col = AreaNumCol THEN Num(i)
  ELSE name

MkGeo(cols, names) ==
  [exists |-> TRUE,
   frame |-> [cols |-> cols,
              rows |-> [i \in 1..Len(names) |->
                          [c \in 1..Len(cols) |-> GeoCell(cols[c], names[i], i)]],
              crs |-> FileCrs]]

\* rows are pairs <<area name, raw metric value>>
MkCsv(cols, rows) ==
  [exists |-> TRUE,
   frame |-> [cols |-> cols,
              rows |-> [i \in 1..Len(rows) |-> <<rows[i][1], rows[i][2]>>],
              crs |-> 0]]

GeoNames == {Str(<<"A">>), Str(<<"b", " ">>), NaN}
CsvNames == {Str(<<" ", "a">>), Str(<<"A">>)}
MetricVals == {Num(5), Str(<<"x">>), NaN}

FixedGeoNames == <<Str(<<"A">>), Str(<<"b", " ">>)>>
FixedCsvRows == <<<<Str(<<" ", "a">>), Num(5)>>, <<Str(<<"B">>), Str(<<"7">>)>>>>

\* polygons "A", "B", "C" and rows "a" = 5, "C" = 15
ExampleGeo ==
  MkGeo(GeoPlain, <<Str(<<"A">>), Str(<<"B">>), Str(<<"C">>)>>)
ExampleCsv ==
  MkCsv(CsvPlain, <<<<Str(<<"a">>), Num(5)>>, <<Str(<<"C">>), Num(15)>>>>)

GeoFiles ==
  {Absent, ExampleGeo}
  \cup {MkGeo(GeoPlain, names) : names \in SeqsOf(GeoNames, 1, MaxGeoRows)}
  \cup {MkGeo(cols, FixedGeoNames) : cols \in {GeoUpper, GeoClash, GeoNoKey}}

CsvFiles ==
  {Absent, ExampleCsv}
  \cup {MkCsv(CsvPlain, rows) :
          rows \in SeqsOf(CsvNames \X MetricVals, 0, MaxCsvRows)}
  \cup {MkCsv(cols, FixedCsvRows) : cols \in {CsvPadded, CsvNoKey}}

\* what the operator types at the prompt
MetricInputs ==
  {BirthRate, BirthRate \o <<" ">>, Lower(BirthRate), AreaNumCol, JoinCol,
   CommunityAreaName}

\* area names for the join key: every text up to MaxNameLen over a small
\* alphabet, and the three spellings of Austin
KeyAlphabet == {"a", "A", "b", " ", "\t"}
Austin1 == <<"A","u","s","t","i","n"," ">>
Austin2 == <<"a","u","s","t","i","n">>
Austin3 == <<" ","A","U","S","T","I","N">>
KeyStrings == SeqsOf(KeyAlphabet, 0, MaxNameLen) \cup {Austin1, Austin2, Austin3}
KeyGeoFiles == {MkGeo(GeoPlain, <<Str(s)>>) : s \in KeyStrings}
KeyCsvFiles == {MkCsv(CsvPlain, <<<<Str(s), Num(5)>>>>) : s \in KeyStrings}

\* metric series for the color scale: every series up to MaxSeriesLen over
\* null and 0..MaxVal, and the series 1, 2, ..., 100; area i carries entry i
SeriesVals == {NaN} \cup {Num(v) : v \in 0..MaxVal}
Ramp == [i \in 1..100 |-> Num(i)]
SeriesSet == SeqsOf(SeriesVals, 1, MaxSeriesLen) \cup {Ramp}
ScaleGeo(n) == MkGeo(GeoPlain, [i \in 1..n |-> Num(i)])
ScaleCsv(series) ==
  MkCsv(CsvPlain, [i \in 1..Len(series) |-> <<Num(i), series[i]>>])

\* ------------------------------------------------------------------- state
VARIABLES
  pc,             \* where main is: start, geo, csv, asked, merged, poster, done, error
  err,            \* the exception that ended the run, "" when none
  geoFile,        \* data/chicago-community-areas.geojson
  csvFile,        \* data/public-health-statistics-...csv
  typed,          \* the line the operator types at the prompt
  gdf,            \* main's gdf
  df,             \* main's df
  metric,         \* main's metric
  merged,         \* main's merged
  posterFrame,    \* make_poster's local merged, after to_crs
  mapFrame,       \* make_interactive's local merged, after to_crs
  vmin,           \* make_poster's vmin
  vmax,           \* make_poster's vmax
  basemap,        \* none, drawn, failed
  warned,         \* the basemap warning was printed
  posterStarted,  \* make_poster was entered
  mapStarted,     \* make_interactive was entered
  pngWritten,     \* output/chicago_health_poster.png exists
  htmlWritten,    \* output/chicago_health_map.html exists
  tooltipFields,  \* GeoJsonTooltip(fields=...)
  tooltipAliases  \* GeoJsonTooltip(aliases=...)

vars ==
  <<pc, err, geoFile, csvFile, typed, gdf, df, metric, merged, posterFrame,
    mapFrame, vmin, vmax, basemap, warned, posterStarted, mapStarted,
    pngWritten, htmlWritten, tooltipFields, tooltipAliases>>

\* the state of a run before main's first statement
Fresh ==
  /\ pc = "start"
  /\ err = ""
  /\ gdf = NoFrame
  /\ df = NoFrame
  /\ metric = <<>>
  /\ merged = NoFrame
  /\ posterFrame = NoFrame
  /\ mapFrame = NoFrame
  /\ vmin = NoQuantile
  /\ vmax = NoQuantile
  /\ basemap = "none"
  /\ warned = FALSE
  /\ posterStarted = FALSE
  /\ mapStarted = FALSE
  /\ pngWritten = FALSE
  /\ htmlWritten = FALSE
  /\ tooltipFields = <<>>
  /\ tooltipAliases = <<>>

Init ==
  /\ geoFile \in GeoFiles
  /\ csvFile \in CsvFiles
  /\ typed \in MetricInputs
  /\ Fresh

InitKey ==
  /\ geoFile \in KeyGeoFiles
  /\ csvFile \in KeyCsvFiles
  /\ typed = BirthRate
  /\ Fresh

InitScale ==
  /\ \E series \in SeriesSet :
       /\ geoFile = ScaleGeo(Len(series))
       /\ csvFile = ScaleCsv(series)
  /\ typed = BirthRate
  /\ Fresh

\* ----------------------------------------------------------------- actions
\* gdf = load_geo()
LoadGeo ==
  /\ pc = "start"
  /\ IF ~geoFile.exists
     THEN pc' = "error" /\ err' = "geo_missing" /\ gdf' = gdf
     ELSE pc' = "geo" /\ err' = err /\ gdf' = StripColumns(geoFile.frame)
  /\ UNCHANGED <<geoFile, csvFile, typed, df, metric, merged, posterFrame,
                 mapFrame, vmin, vmax, basemap, warned, posterStarted,
                 mapStarted, pngWritten, htmlWritten, tooltipFields,
                 tooltipAliases>>

\* df = load_csv()
LoadCsv ==
  /\ pc = "geo"
  /\ IF ~csvFile.exists
     THEN pc' = "error" /\ err' = "csv_missing" /\ df' = df
     ELSE pc' = "csv" /\ err' = err /\ df' = StripColumns(csvFile.frame)
  /\ UNCHANGED <<geoFile, csvFile, typed, gdf, metric, merged, posterFrame,
                 mapFrame, vmin, vmax, basemap, warned, posterStarted,
                 mapStarted, pngWritten, htmlWritten, tooltipFields,
                 tooltipAliases>>

\* metric = input("Metric: ").strip()
AskMetric ==
  /\ pc = "csv"
  /\ metric' = Strip(typed)
  /\ pc' = "asked"
  /\ UNCHANGED <<err, geoFile, csvFile, typed, gdf, df, merged, posterFrame,
                 mapFrame, vmin, vmax, basemap, warned, posterStarted,
                 mapStarted, pngWritten, htmlWritten, tooltipFields,
                 tooltipAliases>>

\* merged = merge_data(gdf, df, metric)
MergeData ==
  /\ pc = "asked"
  /\ LET gk == DetectGeoKey(gdf.cols) IN
       IF gk = 0
       THEN /\ pc' = "error" /\ err' = "no_community_field"
            /\ UNCHANGED <<gdf, df, merged>>
       ELSE IF ~HasCol(df.cols, CommunityAreaName)
       THEN /\ pc' = "error" /\ err' = "no_name_column"
            /\ UNCHANGED <<gdf, df, merged>>
       ELSE LET g == WithJoinKey(gdf, gdf.cols[gk])
                d == WithJoinKey(df, CommunityAreaName)
                m == MergeFrames(g, d, JoinCol)
            IN /\ gdf' = g
               /\ df' = d
               /\ IF ~HasCol(m.cols, metric)
                  THEN pc' = "error" /\ err' = "metric_not_found"
                       /\ merged' = merged
                  ELSE pc' = "merged" /\ err' = err
                       /\ merged' = WithMetricValue(m, metric)
  /\ UNCHANGED <<geoFile, csvFile, typed, metric, posterFrame, mapFrame, vmin,
                 vmax, basemap, warned, posterStarted, mapStarted, pngWritten,
                 htmlWritten, tooltipFields, tooltipAliases>>

\* make_poster(merged, metric): the basemap fetch succeeds or raises; either
\* way the figure is saved
MakePoster ==
  /\ pc = "merged"
  /\ posterStarted' = TRUE
  /\ posterFrame' = ToCrs(merged, PosterCrs)
  /\ merged' = ToCrsSelf(merged, PosterCrs)
  /\ vmin' = Quantile(Column(posterFrame', MetricValueCol), QLow)
  /\ vmax' = Quantile(Column(posterFrame', MetricValueCol), QHigh)
  /\ \E fetched \in BOOLEAN :
       /\ basemap' = IF fetched THEN "drawn" ELSE "failed"
       /\ warned' = ~fetched
  /\ pngWritten' = TRUE
  /\ pc' = "poster"
  /\ UNCHANGED <<err, geoFile, csvFile, typed, gdf, df, metric, mapFrame,
                 mapStarted, htmlWritten, tooltipFields, tooltipAliases>>

\* tooltip_cols of make_interactive
TooltipCols(cols) ==
  IF HasCol(cols, CommunityAreaName)
  THEN <<CommunityAreaName, MetricValueCol>>
  ELSE <<MetricValueCol>>

\* make_interactive(merged, metric): GeoJsonTooltip rejects fields and aliases
\* of different lengths, and then the map is not saved
MakeInteractive ==
  /\ pc = "poster"
  /\ mapStarted' = TRUE
  /\ mapFrame' = ToCrs(merged, MapCrs)
  /\ merged' = ToCrsSelf(merged, MapCrs)
  /\ tooltipFields' = TooltipCols(mapFrame'.cols)
  /\ tooltipAliases' = <<CommunityAreaAlias, metric>>
  /\ IF Len(tooltipFields') = Len(tooltipAliases')
     THEN pc' = "done" /\ err' = err /\ htmlWritten' = TRUE
     ELSE pc' = "error" /\ err' = "tooltip_mismatch" /\ htmlWritten' = htmlWritten
  /\ UNCHANGED <<geoFile, csvFile, typed, gdf, df, metric, posterFrame, vmin,
                 vmax, basemap, warned, posterStarted, pngWritten>>

Next ==
  \/ LoadGeo
  \/ LoadCsv
  \/ AskMetric
  \/ MergeData
  \/ MakePoster
  \/ MakeInteractive

Spec == Init /\ [][Next]_vars
SpecKey == InitKey /\ [][Next]_vars
SpecScale == InitScale /\ [][Next]_vars

\* ------------------------------------------------------------------ claims
\* merge_data has returned a joined frame
MergeReturned == Len(merged.cols) > 0

\* the columns of the CSV as load_csv returns them
CsvCols == StripColumns(csvFile.frame).cols

\* the properties of the GeoJSON features as load_geo returns them
GeoCols == StripColumns(geoFile.frame).cols

\* the requested metric, as main passes it to merge_data
Requested == Strip(typed)

\* both inputs pass the checks merge_data makes before the join
SchemaOk ==
  /\ geoFile.exists
  /\ csvFile.exists
  /\ DetectGeoKey(GeoCols) # 0
  /\ HasCol(CsvCols, CommunityAreaName)

\* the metric_value column of the joined frame
MetricSeries == Column(merged, MetricValueCol)

\* C1: the joined output has as many features as the geographic input, and
\* every geographic feature appears in it exactly once (so it is matched to
\* at most one metric row), also when several metric rows share a join key.
C1_LeftJoinCardinality ==
  MergeReturned =>
    /\ Len(merged.rows) = Len(geoFile.frame.rows)
    /\ \A i \in 1..Len(gdf.rows) :
         Cardinality({r \in 1..Len(merged.rows) :
                        Cell(merged, r, GeometryCol) = Cell(gdf, i, GeometryCol)})
           = 1

\* C2: whenever the requested metric is not a column of the CSV, merge_data
\* fails with the metric-not-found error and neither output file is written,
\* also when the name is a geographic-only column or the join-key column.
C2_MetricNotInCsvFails ==
  (SchemaOk /\ ~HasCol(CsvCols, Requested)
     /\ pc \notin {"start", "geo", "csv", "asked"}) =>
    /\ pc = "error"
    /\ err = "metric_not_found"
    /\ ~pngWritten
    /\ ~htmlWritten

\* a fatal condition of the inputs: a missing file, a missing join field on
\* either side, or a requested metric that the CSV does not have
FatalCondition ==
  \/ ~geoFile.exists
  \/ ~csvFile.exists
  \/ DetectGeoKey(GeoCols) = 0
  \/ ~HasCol(CsvCols, CommunityAreaName)
  \/ ~HasCol(CsvCols, Requested)

\* C3: under any fatal condition the run aborts before make_poster or
\* make_interactive starts, and no run that ends in an error has written an
\* output file.
C3_FatalAbortsBeforeRendering ==
  /\ FatalCondition =>
       ~posterStarted /\ ~mapStarted /\ ~pngWritten /\ ~htmlWritten
  /\ pc = "error" => ~pngWritten /\ ~htmlWritten

AllWhitespace(s) == \A i \in 1..Len(s) : s[i] \in Whitespace

\* s without some leading and some trailing whitespace
Cores(s) ==
  {SubSeq(s, p[1], p[2]) :
     p \in {q \in (1..(Len(s) + 1)) \X (0..Len(s)) :
              /\ q[1] <= q[2] + 1
              /\ AllWhitespace(SubSeq(s, 1, q[1] - 1))
              /\ AllWhitespace(SubSeq(s, q[2] + 1, Len(s)))}}

SameLetter(c, d) ==
  c = d \/ \E k \in 1..26 : {c, d} = {UpperChars[k], LowerChars[k]}

\* a and b differ only in letter case and in surrounding whitespace
Variant(a, b) ==
  \E x \in Cores(a), y \in Cores(b) :
    Len(x) = Len(y) /\ \A i \in 1..Len(x) : SameLetter(x[i], y[i])

\* the area name of geographic feature i and of metric row j, as text
GeoName(i) == AsStr(Cell(gdf, i, gdf.cols[DetectGeoKey(gdf.cols)]))
CsvName(j) == AsStr(Cell(df, j, CommunityAreaName))

\* metric row j is joined to geographic feature i
Matched(i, j) ==
  \E r \in 1..Len(merged.rows) :
    /\ Cell(merged, r, GeometryCol) = Cell(gdf, i, GeometryCol)
    /\ Cell(merged, r, CommunityAreaName) = Cell(df, j, CommunityAreaName)
    /\ Cell(merged, r, BirthRate) = Cell(df, j, BirthRate)

\* C4: normalizing a join key again returns it unchanged, and two area names
\* that differ only in letter case or surrounding whitespace get the same
\* join key and are matched by the join.
C4_JoinKeyNormalization ==
  MergeReturned =>
    /\ \A i \in 1..Len(gdf.rows) :
         Normalize(Cell(gdf, i, JoinCol)) = Cell(gdf, i, JoinCol)
    /\ \A j \in 1..Len(df.rows) :
         Normalize(Cell(df, j, JoinCol)) = Cell(df, j, JoinCol)
    /\ \A i \in 1..Len(gdf.rows), j \in 1..Len(df.rows) :
         Variant(GeoName(i), CsvName(j)) =>
           /\ Cell(gdf, i, JoinCol) = Cell(df, j, JoinCol)
           /\ Matched(i, j)

\* C4 witness: a run that joined two different spellings of one name, among
\* them "Austin " on the map and " AUSTIN" in the table.
C4_Witness ==
  /\ pc = "done"
  /\ GeoName(1) # CsvName(1)
  /\ Variant(GeoName(1), CsvName(1))
  /\ GeoName(1) = Austin1
  /\ CsvName(1) = Austin3
  /\ Matched(1, 1)

\* C5: for every joined feature, metric_value is the number parsed from the
\* selected metric column of a metric row with the feature's join key, and
\* null when no metric row has that key or the raw value is not a number;
\* polygons A, B, C with rows a = 5 and C = 15 give 5, null, 15.
C5_MetricValueFromMatchedRow ==
  MergeReturned =>
    /\ \A r \in 1..Len(merged.rows) :
         LET rowsWithKey ==
               {j \in 1..Len(df.rows) :
                  Cell(df, j, JoinCol) = Cell(merged, r, JoinCol)}
         IN IF rowsWithKey = {}
            THEN Cell(merged, r, MetricValueCol) = NaN
            ELSE /\ HasCol(CsvCols, metric)
                 /\ \E j \in rowsWithKey :
                      Cell(merged, r, MetricValueCol)
                        = ToNumeric(Cell(df, j, metric))
    /\ (geoFile = ExampleGeo /\ csvFile = ExampleCsv /\ metric = BirthRate) =>
         MetricSeries = <<Num(5), NaN, Num(15)>>

\* C6: when the basemap fetch fails, a warning is emitted, the poster is
\* still written, and make_interactive runs afterwards and writes the map.
C6_BasemapFailureIsNotFatal ==
  basemap = "failed" =>
    /\ warned
    /\ pngWritten
    /\ pc \in {"poster", "done"}
    /\ pc = "done" => htmlWritten

\* the non-null entries of the joined metric values
NonNullCount == Len(SelectSeq(MetricSeries, LAMBDA v : v.k = "num"))
NonNullValues ==
  {MetricSeries[i].n : i \in {k \in 1..Len(MetricSeries) :
                                MetricSeries[k].k = "num"}}
MinValue == CHOOSE v \in NonNullValues : \A w \in NonNullValues : v <= w
MaxValue == CHOOSE v \in NonNullValues : \A w \in NonNullValues : w <= v

\* C7: with at least two distinct non-null values vmin <= vmax, both within
\* the data range; with no non-null value both bounds are null and with a
\* single one both equal it, and the poster is produced in every case; with
\* two values a < b the bounds are a + 0.01 (b - a) and a + 0.99 (b - a).
C7_ScaleBoundsOrdered ==
  posterStarted =>
    /\ pngWritten
    /\ Cardinality(NonNullValues) >= 2 =>
         /\ ~vmin.nan /\ ~vmax.nan
         /\ 100 * MinValue <= vmin.c
         /\ vmin.c <= vmax.c
         /\ vmax.c <= 100 * MaxValue
    /\ NonNullCount = 0 => vmin.nan /\ vmax.nan
    /\ NonNullCount = 1 =>
         /\ ~vmin.nan /\ ~vmax.nan
         /\ vmin.c = 100 * MinValue
         /\ vmax.c = 100 * MinValue
    /\ NonNullCount = 2 =>
         /\ vmin.c = 100 * MinValue + (MaxValue - MinValue)
         /\ vmax.c = 100 * MinValue + 99 * (MaxValue - MinValue)

\* C7 witness: a poster drawn from at least two distinct values with a null
\* among them, with vmin strictly below vmax.
C7_Witness ==
  /\ posterStarted
  /\ Cardinality(NonNullValues) >= 2
  /\ NonNullCount < Len(MetricSeries)
  /\ ~vmin.nan /\ ~vmax.nan
  /\ vmin.c < vmax.c

\* C8: for the metric values 1, 2, ..., 100 vmin is strictly above 1 and vmax
\* strictly below 100.
C8_RampBoundsInsideRange ==
  (posterStarted /\ MetricSeries = Ramp) =>
    /\ ~vmin.nan /\ ~vmax.nan
    /\ vmin.c > 100 * 1
    /\ vmax.c < 100 * 100

\* C8 witness: the poster of the series 1..100 was drawn, with bounds 1.99
\* and 99.01.
C8_Witness ==
  /\ posterStarted
  /\ pngWritten
  /\ MetricSeries = Ramp
  /\ vmin.c = 199
  /\ vmax.c = 9901

\* C9: make_poster and make_interactive leave main's joined frame as it was
\* when they were called.
C9_RenderersLeaveMergedUnchanged ==
  [][(pc \in {"merged", "poster"}) => (merged' = merged)]_vars

\* C9 witness: both renderers ran on a non-empty joined frame, each on its
\* own reprojected copy, and main's frame is still in the file's system.
C9_Witness ==
  /\ pc = "done"
  /\ Len(merged.rows) > 0
  /\ merged.crs = FileCrs
  /\ posterFrame = ToCrs(merged, PosterCrs)
  /\ posterFrame # merged
  /\ mapFrame = ToCrs(merged, MapCrs)

\* C10: the tooltip shows the metric value, and the area name when the joined
\* frame has a "Community Area Name" column, with one label per field: the
\* fields and the labels have the same length for every joined frame.
C10_TooltipLabelsMatchFields ==
  mapStarted =>
    /\ Len(tooltipFields) = Len(tooltipAliases)
    /\ \E i \in 1..Len(tooltipFields) : tooltipFields[i] = MetricValueCol
    /\ HasCol(merged.cols, CommunityAreaName) =>
         \E i \in 1..Len(tooltipFields) : tooltipFields[i] = CommunityAreaName

====
